---- MODULE Spec2Model ----
(***************************************************************************)
(* The expense tracker of src/app.py: a SQLite ledger (tables              *)
(* transactions and categories) behind a Streamlit script that is run from *)
(* top to bottom once per user interaction.  One action is one script run  *)
(* (with the reruns it requests), in one browser session.                  *)
(*                                                                         *)
(* Encodings.  An amount is a whole number of cents.  A TEXT date is the   *)
(* tuple of the numeric fields of its ISO form: 'YYYY-MM-DD' is            *)
(* <<Y, M, D>> and 'YYYY-MM-DD HH:MM:SS' is <<Y, M, D, h, m, s>>; the      *)
(* fields are zero padded to a fixed width, so SQLite's bytewise TEXT      *)
(* comparison is the lexicographic comparison of the tuples, a proper      *)
(* prefix being smaller.  The column created_at is left out: nothing reads *)
(* it.                                                                     *)
(***************************************************************************)
EXTENDS Integers, Sequences, FiniteSets, TLC

MaxTx == 2
MaxSessions == 2
CurrentYear == 2026

HeadRows == 10

Types == {"expense", "income"}
Amounts == {40, 100}
Descriptions == {"lunch"}
NewCategoryNames == {"Pets", "Others"}
OfferedCategories == {"Food", "Others", "Salary", "Pets"}
Years == {CurrentYear - 1, CurrentYear}

default_expense_categories ==
    <<"Food", "Transport", "Housing", "Entertainment", "Healthcare",
      "Education", "Shopping", "Others">>
default_income_categories ==
    <<"Salary", "Bonus", "Freelance", "Investment", "Gift", "Others">>

\* The names of the model in the order of SQLite's BINARY collation.
Collation ==
    <<"Bonus", "Education", "Entertainment", "Food", "Freelance", "Gift",
      "Healthcare", "Housing", "Investment", "Others", "Pets", "Salary",
      "Shopping", "Transport">>

Range(s) == {s[i] : i \in 1..Len(s)}

----------------------------------------------------------------------------
(* Python values handed to the store, and their binding as SQL parameters. *)

None == [py |-> "None"]
Str(x) == [py |-> "str", text |-> x]
IsoStr(t) == [py |-> "isostr", text |-> t]
List(xs) == [py |-> "list", items |-> xs]
date(y, m, d) == [py |-> "date", year |-> y, month |-> m, day |-> d]
datetime(y, m, d, hh, mm, ss) ==
    [py |-> "datetime", year |-> y, month |-> m, day |-> d,
     hour |-> hh, minute |-> mm, second |-> ss]

\* Python truthiness of an argument, as tested by "if start_date:".
Truthy(v) ==
    CASE v.py = "None" -> FALSE
      [] v.py = "list" -> Len(v.items) > 0
      [] v.py = "str" -> v.text # ""
      [] v.py = "isostr" -> v.text # <<>>
      [] OTHER -> TRUE

\* sqlite3's default adapters: date.isoformat() and datetime.isoformat(" ").
adapt_date(v) == <<v.year, v.month, v.day>>
adapt_datetime(v) == <<v.year, v.month, v.day, v.hour, v.minute, v.second>>
Bind(v) ==
    CASE v.py = "date" -> adapt_date(v)
      [] v.py = "datetime" -> adapt_datetime(v)
      [] OTHER -> v.text

\* SQLite's comparison of two TEXT values (memcmp, then the shorter first).
TextLess(a, b) ==
    \E i \in 1..Len(b) :
        /\ \A j \in 1..(i - 1) : j <= Len(a) /\ a[j] = b[j]
        /\ (i <= Len(a)) => a[i] < b[i]
TextLeq(a, b) == a = b \/ TextLess(a, b)

\* strftime('%Y-%m', d) of an ISO date text.
strftime_Ym(d) == <<d[1], d[2]>>

\* f"{year}-01-01" and f"{year}-12-31".
YearStart(year) == IsoStr(<<year, 1, 1>>)
YearEnd(year) == IsoStr(<<year, 12, 31>>)

----------------------------------------------------------------------------
(* datetime.now() - timedelta(days = n).                                   *)

IsLeap(y) == (y % 4 = 0 /\ y % 100 # 0) \/ y % 400 = 0
DaysInMonth(y, m) ==
    IF m = 2 THEN (IF IsLeap(y) THEN 29 ELSE 28)
    ELSE IF m \in {4, 6, 9, 11} THEN 30 ELSE 31
PrevDay(v) ==
    IF v.day > 1 THEN [v EXCEPT !.day = v.day - 1]
    ELSE IF v.month > 1
         THEN [v EXCEPT !.month = v.month - 1,
                        !.day = DaysInMonth(v.year, v.month - 1)]
         ELSE [v EXCEPT !.year = v.year - 1, !.month = 12, !.day = 31]
RECURSIVE MinusDays(_, _)
MinusDays(v, n) == IF n = 0 THEN v ELSE MinusDays(PrevDay(v), n - 1)

\* The moment of the script run: noon of the last day of the current year.
Now == datetime(CurrentYear, 12, 31, 12, 0, 0)
Today == date(Now.year, Now.month, Now.day)

\* The days a user picks in a date input.
Dates ==
    {date(CurrentYear - 1, 12, 31), date(CurrentYear, 1, 1),
     date(CurrentYear, 12, 31)}

----------------------------------------------------------------------------
(* The store.  A table is its set of rows with its sqlite_sequence entry   *)
(* (AUTOINCREMENT: the largest rowid ever given out).                      *)

EmptyTable == [rows |-> {}, seq |-> 0]

NULL == <<>>
Coalesce(v, d) == IF v = NULL THEN d ELSE v[1]

RECURSIVE SumAmount(_)
SumAmount(S) ==
    IF S = {} THEN 0
    ELSE LET t == CHOOSE x \in S : TRUE IN t.amount + SumAmount(S \ {t})

\* SELECT SUM(amount): NULL over no rows.
SqlSum(S) == IF S = {} THEN NULL ELSE <<SumAmount(S)>>

\* A categories table whose name column is not UNIQUE.
InsertCategory_NotUnique(tbl, name, type) ==
    [rows |-> tbl.rows \cup
                {[id |-> tbl.seq + 1, name |-> name, type |-> type]},
     seq |-> tbl.seq + 1, ok |-> TRUE]

\* INSERT INTO categories (name, type): name is UNIQUE, and a refused insert
\* is rolled back with its rowid.
InsertCategory(tbl, name, type) ==
    IF \E r \in tbl.rows : r.name = name
    THEN [rows |-> tbl.rows, seq |-> tbl.seq, ok |-> FALSE]
    ELSE [rows |-> tbl.rows \cup
                     {[id |-> tbl.seq + 1, name |-> name, type |-> type]},
          seq |-> tbl.seq + 1, ok |-> TRUE]

RECURSIVE InsertDefaults(_, _, _)
InsertDefaults(tbl, names, type) ==
    IF names = <<>> THEN [rows |-> tbl.rows, seq |-> tbl.seq]
    ELSE InsertDefaults(InsertCategory(tbl, Head(names), type),
                        Tail(names), type)

\* An init_db that creates the categories table anew.
init_db_Recreate(tbl) ==
    InsertDefaults(InsertDefaults(EmptyTable, default_expense_categories,
                                  "expense"),
                   default_income_categories, "income")

\* init_db on the categories table (CREATE TABLE IF NOT EXISTS keeps a
\* table that exists).
init_db(tbl) ==
    InsertDefaults(InsertDefaults(tbl, default_expense_categories, "expense"),
                   default_income_categories, "income")

RowidOrder(a, b) == a.id < b.id

\* ORDER BY date DESC; rows of one date come in rowid order.
DateDescOrder(a, b) ==
    \/ TextLess(b.date, a.date)
    \/ a.date = b.date /\ a.id < b.id

\* ORDER BY month DESC, of the groups of get_monthly_summary.
MonthDescOrder(a, b) == TextLess(b.month, a.month)

Before(order, a, b) ==
    CASE order = "rowid" -> RowidOrder(a, b)
      [] order = "date DESC" -> DateDescOrder(a, b)
      [] order = "month DESC" -> MonthDescOrder(a, b)

\* The rows of a set as a sequence in the given order.
SortRows(S, order) ==
    [i \in 1..Cardinality(S) |->
        CHOOSE t \in S : Cardinality({u \in S : Before(order, u, t)}) = i - 1]

\* ORDER BY name: the rows of each name of the collation in turn.
RECURSIVE OrderByName(_, _)
OrderByName(S, i) ==
    IF i > Len(Collation) THEN <<>>
    ELSE SortRows({r \in S : r.name = Collation[i]}, "rowid")
         \o OrderByName(S, i + 1)

\* SELECT name FROM categories WHERE type = ? ORDER BY name
get_categories(tbl, transaction_type) ==
    LET sel == OrderByName({r \in tbl.rows : r.type = transaction_type}, 1)
    IN [i \in 1..Len(sel) |-> sel[i].name]

add_category(tbl, name, transaction_type) ==
    InsertCategory(tbl, name, transaction_type)

\* An insert whose id is not recorded as given out.
add_transaction_SameId(tbl, transaction_type, amount, category, d, description) ==
    [rows |-> tbl.rows \cup
                {[id |-> tbl.seq + 1, type |-> transaction_type,
                  amount |-> amount, category |-> category,
                  date |-> Bind(d), description |-> description]},
     seq |-> tbl.seq]

\* INSERT OR REPLACE on a fixed id: the new row takes the place of the old.
add_transaction_Replace(tbl, transaction_type, amount, category, d, description) ==
    [rows |-> {[id |-> tbl.seq + 1, type |-> transaction_type,
                amount |-> amount, category |-> category,
                date |-> Bind(d), description |-> description]},
     seq |-> tbl.seq + 1]

\* INSERT INTO transactions: the date parameter goes through the adapter.
add_transaction(tbl, transaction_type, amount, category, d, description) ==
    [rows |-> tbl.rows \cup
                {[id |-> tbl.seq + 1, type |-> transaction_type,
                  amount |-> amount, category |-> category,
                  date |-> Bind(d), description |-> description]},
     seq |-> tbl.seq + 1]

\* The WHERE clause of get_transactions, one conjunct per truthy argument,
\* in the order the query string is built.
WhereClauses(start_date, end_date, categories, transaction_type) ==
    (IF Truthy(start_date)
     THEN <<[col |-> "date", op |-> ">=", arg |-> Bind(start_date)]>>
     ELSE <<>>)
    \o (IF Truthy(end_date)
        THEN <<[col |-> "date", op |-> "<=", arg |-> Bind(end_date)]>>
        ELSE <<>>)
    \o (IF Truthy(categories)
        THEN <<[col |-> "category", op |-> "IN", arg |-> categories.items]>>
        ELSE <<>>)
    \o (IF Truthy(transaction_type)
        THEN <<[col |-> "type", op |-> "=", arg |-> Bind(transaction_type)]>>
        ELSE <<>>)

EvalClause(row, c) ==
    CASE c.op = ">=" -> TextLeq(c.arg, row.date)
      [] c.op = "<=" -> TextLeq(row.date, c.arg)
      [] c.op = "IN" -> row.category \in Range(c.arg)
      [] c.op = "=" -> row.type = c.arg

\* The conjuncts joined by OR.
Where_Or(row, clauses) ==
    clauses = <<>> \/ \E i \in 1..Len(clauses) : EvalClause(row, clauses[i])

\* WHERE 1=1 AND c1 AND c2 ...
Where(row, clauses) == \A i \in 1..Len(clauses) : EvalClause(row, clauses[i])

\* The data frame of get_transactions: the selected rows, in order.
get_transactions(tbl, start_date, end_date, categories, transaction_type) ==
    LET clauses == WhereClauses(start_date, end_date, categories,
                                transaction_type)
    IN SortRows({r \in tbl.rows : Where(r, clauses)}, "date DESC")

\* The two sums subtracted the other way round.
get_balance_Swapped(tbl) ==
    LET income == Coalesce(SqlSum({r \in tbl.rows : r.type = "income"}), 0)
        expenses == Coalesce(SqlSum({r \in tbl.rows : r.type = "expense"}), 0)
    IN expenses - income

get_balance(tbl) ==
    LET income == Coalesce(SqlSum({r \in tbl.rows : r.type = "income"}), 0)
        expenses == Coalesce(SqlSum({r \in tbl.rows : r.type = "expense"}), 0)
    IN income - expenses

\* A balance column that adds the expenses.
CaseExpr_Unsigned(col, r) ==
    CASE col = "income" -> IF r.type = "income" THEN r.amount ELSE 0
      [] col = "expense" -> IF r.type = "expense" THEN r.amount ELSE 0
      [] col = "balance" -> r.amount

\* The three CASE expressions summed by get_monthly_summary.
CaseExpr(col, r) ==
    CASE col = "income" -> IF r.type = "income" THEN r.amount ELSE 0
      [] col = "expense" -> IF r.type = "expense" THEN r.amount ELSE 0
      [] col = "balance" -> IF r.type = "income" THEN r.amount ELSE 0 - r.amount

RECURSIVE SumCase(_, _)
SumCase(col, S) ==
    IF S = {} THEN 0
    ELSE LET r == CHOOSE x \in S : TRUE
         IN CaseExpr(col, r) + SumCase(col, S \ {r})

\* GROUP BY strftime('%Y-%m', date) ORDER BY month DESC
get_monthly_summary(tbl) ==
    LET months == {strftime_Ym(r.date) : r \in tbl.rows}
        group(m) == {r \in tbl.rows : strftime_Ym(r.date) = m}
    IN SortRows({[month |-> m,
                  income |-> SumCase("income", group(m)),
                  expense |-> SumCase("expense", group(m)),
                  balance |-> SumCase("balance", group(m))] : m \in months},
                "month DESC")

\* df['amount'].sum() and df.head(n) of a data frame.
RECURSIVE ColumnSum(_)
ColumnSum(df) == IF df = <<>> THEN 0 ELSE Head(df).amount + ColumnSum(Tail(df))
DfHead(df, n) == SubSeq(df, 1, IF Len(df) < n THEN Len(df) ELSE n)

----------------------------------------------------------------------------
(* The state: the two tables, each session's st.session_state, and what    *)
(* the last script run drew.  addCalls counts the calls of add_transaction *)
(* (a history variable).  Before the first init_db the database file does  *)
(* not exist; no operation reads it then, and CREATE TABLE IF NOT EXISTS   *)
(* starts it with two empty tables.                                        *)

VARIABLES transactions, categories, session_state, screen, addCalls

vars == <<transactions, categories, session_state, screen, addCalls>>

Sessions == 1..MaxSessions

\* st.session_state of a browser session that has not connected yet.
NoSession == [db_initialized |-> FALSE, prev_transaction_type |-> "unset"]

Init ==
    /\ transactions = EmptyTable
    /\ categories = EmptyTable
    /\ session_state = [s \in Sessions |-> NoSession]
    /\ screen = [page |-> "none"]
    /\ addCalls = 0

\* The Dashboard branch of the script.
DashboardPage(txs) ==
    [page |-> "Dashboard",
     balance |-> get_balance(txs),
     total_income |->
         ColumnSum(get_transactions(txs, None, None, None, Str("income"))),
     total_expenses |->
         ColumnSum(get_transactions(txs, None, None, None, Str("expense"))),
     monthly_df |-> get_monthly_summary(txs),
     recent_transactions |->
         DfHead(get_transactions(txs, None, None, None, None), HeadRows)]

\* A browser session connects: the first script run, with init_db and the
\* default menu entry.  Sessions connect in the order of their numbers.
SessionStart(s) ==
    /\ ~session_state[s].db_initialized
    /\ \A r \in Sessions : r < s => session_state[r].db_initialized
    /\ categories' = init_db(categories)
    /\ session_state' = [session_state EXCEPT ![s].db_initialized = TRUE]
    /\ screen' = DashboardPage(transactions)
    /\ UNCHANGED <<transactions, addCalls>>

Dashboard(s) ==
    /\ session_state[s].db_initialized
    /\ screen' = DashboardPage(transactions)
    /\ UNCHANGED <<transactions, categories, session_state, addCalls>>

\* One run of the "Add Transaction" branch with the widget values w, and
\* the runs that st.experimental_rerun() starts after it.  A rerun abandons
\* the run (what it drew is discarded), keeps the widget values, and finds
\* the submit button released.  run holds the session's
\* prev_transaction_type, both tables, the values add_category returned,
\* the number of add_transaction calls and the messages drawn.
RECURSIVE TransactionFormRun(_, _, _)
TransactionFormRun(run, w, submitted) ==
    LET prev == IF run.prev = "unset" THEN w.transaction_type ELSE run.prev
    IN IF prev # w.transaction_type
       THEN TransactionFormRun([run EXCEPT !.prev = w.transaction_type],
                               w, FALSE)
       ELSE IF w.new_category # ""
       THEN LET ins == add_category(run.cats, w.new_category,
                                    w.transaction_type)
                run1 == [run EXCEPT !.prev = prev,
                                    !.cats = [rows |-> ins.rows, seq |-> ins.seq],
                                    !.returned = Append(@, ins.ok)]
            IN IF ins.ok
               THEN TransactionFormRun(run1, w, FALSE)
               ELSE IF submitted
               THEN [run1 EXCEPT
                       !.txs = add_transaction(@, w.transaction_type, w.amount,
                                               w.category, w.date,
                                               w.description),
                       !.calls = @ + 1,
                       !.messages = <<"Category already exists!",
                                      "Transaction added successfully!">>]
               ELSE [run1 EXCEPT !.messages = <<"Category already exists!">>]
       ELSE IF submitted
       THEN [run EXCEPT
               !.prev = prev,
               !.txs = add_transaction(@, w.transaction_type, w.amount,
                                       w.category, w.date, w.description),
               !.calls = @ + 1,
               !.messages = <<"Transaction added successfully!">>]
       ELSE [run EXCEPT !.prev = prev]

StartRun(s) ==
    [prev |-> session_state[s].prev_transaction_type, cats |-> categories,
     txs |-> transactions, returned |-> <<>>, calls |-> 0, messages |-> <<>>]

\* The state and the screen a finished chain of form runs leaves.
FormRunDone(s, run) ==
    /\ session_state' =
           [session_state EXCEPT ![s].prev_transaction_type = run.prev]
    /\ categories' = run.cats
    /\ transactions' = run.txs
    /\ addCalls' = addCalls + run.calls
    /\ screen' = [page |-> "Add Transaction", messages |-> run.messages,
                  categories |-> get_categories(run.cats, run.prev)]

\* The widgets of the form as first drawn: the radio on its first option,
\* the smallest amount, the first category, today, empty text fields.
DefaultForm ==
    [transaction_type |-> "expense", amount |-> 1,
     category |-> get_categories(categories, "expense")[1],
     new_category |-> "", date |-> Today, description |-> ""]

\* The user picks "Add Transaction" in the menu.
AddTransactionPage(s) ==
    /\ session_state[s].db_initialized
    /\ FormRunDone(s, TransactionFormRun(StartRun(s), DefaultForm, FALSE))

\* What a user can put in the form: the category comes from the list drawn
\* for the type of the last run.  The sets name the values tried.
FormInputs(s, amounts, offered, names, dates) ==
    LET options == Range(get_categories(categories,
                             session_state[s].prev_transaction_type))
    IN [transaction_type : Types, amount : amounts,
        category : options \cap offered, new_category : names,
        date : dates, description : Descriptions]

\* The user presses "Add Transaction" in the form.
SubmitTransactionForm(s, w) ==
    /\ session_state[s].db_initialized
    /\ session_state[s].prev_transaction_type # "unset"
    /\ transactions.seq < MaxTx
    /\ FormRunDone(s, TransactionFormRun(StartRun(s), w, TRUE))

\* The user submits one of the two forms of "Category Management" (kind
\* names the form) with name in its text field.
CategoryManagement(s, kind, name) ==
    /\ session_state[s].db_initialized
    /\ LET ins == IF name # "" THEN add_category(categories, name, kind)
                  ELSE [rows |-> categories.rows, seq |-> categories.seq,
                        ok |-> FALSE]
           after == [rows |-> ins.rows, seq |-> ins.seq]
       IN /\ categories' = after
          /\ screen' =
                [page |-> "Category Management",
                 expense_categories |-> get_categories(after, "expense"),
                 income_categories |-> get_categories(after, "income"),
                 messages |-> IF name # "" /\ ~ins.ok
                              THEN <<"Category already exists!">> ELSE <<>>]
    /\ UNCHANGED <<transactions, session_state, addCalls>>

\* The options of the "Categories" multiselect, and the selections tried:
\* at most two of the offered names, in the order of the options.
all_categories ==
    get_categories(categories, "income") \o get_categories(categories, "expense")
Selections ==
    LET options == all_categories
        offered == {j \in 1..Len(options) : options[j] \in OfferedCategories}
    IN {<<>>}
       \cup {<<options[i]>> : i \in offered}
       \cup {<<options[k[1]], options[k[2]]>> :
               k \in {x \in offered \X offered : x[1] < x[2]}}

\* The keyword arguments "Transaction History" builds from its filters.
HistoryFilters(start_date, end_date, transaction_type_filter, selected_categories) ==
    [start_date |-> IF Truthy(start_date) THEN start_date ELSE None,
     end_date |-> IF Truthy(end_date) THEN end_date ELSE None,
     transaction_type |-> IF transaction_type_filter # "All"
                          THEN Str(transaction_type_filter) ELSE None,
     categories |-> IF Len(selected_categories) > 0
                    THEN List(selected_categories) ELSE None]

TransactionHistory(s, start_date, end_date, transaction_type_filter, selected_categories) ==
    /\ session_state[s].db_initialized
    /\ LET f == HistoryFilters(start_date, end_date, transaction_type_filter,
                               selected_categories)
       IN screen' =
            [page |-> "Transaction History",
             transactions |-> get_transactions(transactions, f.start_date,
                                  f.end_date, f.categories, f.transaction_type)]
    /\ UNCHANGED <<transactions, categories, session_state, addCalls>>

TimeRanges == {"Last 30 Days", "Last 90 Days", "This Year", "All Time"}

Last30Days == MinusDays(Now, 30)
Last90Days == MinusDays(Now, 90)

\* The start date of "Spending by Category".
RangeStart(time_range) ==
    CASE time_range = "Last 30 Days" -> Last30Days
      [] time_range = "Last 90 Days" -> Last90Days
      [] time_range = "This Year" -> datetime(Now.year, 1, 1, 0, 0, 0)
      [] OTHER -> None

\* The "Reports" branch: its three tabs are drawn in one run.
Reports(s, time_range, year) ==
    /\ session_state[s].db_initialized
    /\ screen' =
          [page |-> "Reports",
           expenses |-> get_transactions(transactions, RangeStart(time_range),
                                         None, None, Str("expense")),
           monthly_summary |-> get_monthly_summary(transactions),
           yearly_data |-> get_transactions(transactions, YearStart(year),
                                            YearEnd(year), None, None)]
    /\ UNCHANGED <<transactions, categories, session_state, addCalls>>

Next ==
    \E s \in Sessions :
        \/ SessionStart(s)
        \/ Dashboard(s)
        \/ AddTransactionPage(s)
        \/ \E w \in FormInputs(s, Amounts, OfferedCategories,
                               {""} \cup NewCategoryNames, Dates) :
              SubmitTransactionForm(s, w)
        \/ \E kind \in Types, name \in {""} \cup NewCategoryNames :
              CategoryManagement(s, kind, name)
        \/ \E start_date \in Dates, end_date \in Dates,
              transaction_type_filter \in {"All"} \cup Types,
              selected_categories \in Selections :
              TransactionHistory(s, start_date, end_date,
                                 transaction_type_filter, selected_categories)
        \/ \E time_range \in TimeRanges, year \in Years :
              Reports(s, time_range, year)

\* The whole program.
Spec == Init /\ [][Next]_vars

\* One session that enters transactions under the default categories and
\* looks at the dashboard.
NextLedger ==
    \E s \in {1} :
        \/ SessionStart(s)
        \/ Dashboard(s)
        \/ AddTransactionPage(s)
        \/ \E w \in FormInputs(s, Amounts, OfferedCategories, {""}, Dates) :
              SubmitTransactionForm(s, w)

SpecLedger == Init /\ [][NextLedger]_vars

\* One session that enters transactions of one amount and queries them in
\* "Transaction History" and "Reports".
NextQueries ==
    \E s \in {1} :
        \/ SessionStart(s)
        \/ AddTransactionPage(s)
        \/ \E w \in FormInputs(s, {40}, OfferedCategories, {""}, Dates) :
              SubmitTransactionForm(s, w)
        \/ \E start_date \in Dates, end_date \in Dates,
              transaction_type_filter \in {"All"} \cup Types,
              selected_categories \in Selections :
              TransactionHistory(s, start_date, end_date,
                                 transaction_type_filter, selected_categories)
        \/ \E time_range \in TimeRanges, year \in Years :
              Reports(s, time_range, year)

SpecQueries == Init /\ [][NextQueries]_vars

\* Several sessions that add categories, in "Category Management" and in
\* the transaction form, and enter transactions of one amount and one day.
NextCategories ==
    \E s \in Sessions :
        \/ SessionStart(s)
        \/ AddTransactionPage(s)
        \/ \E w \in FormInputs(s, {40}, {"Food", "Salary", "Pets"},
                               {""} \cup NewCategoryNames, {Today}) :
              SubmitTransactionForm(s, w)
        \/ \E kind \in Types, name \in {""} \cup NewCategoryNames :
              CategoryManagement(s, kind, name)

SpecCategories == Init /\ [][NextCategories]_vars

----------------------------------------------------------------------------
(* The claims.                                                             *)

Distinct(seq) == \A i, j \in 1..Len(seq) : i # j => seq[i] # seq[j]
OfType(rows, type) == {r \in rows : r.type = type}
Connected == \E s \in Sessions : session_state[s].db_initialized

\* C1: after n calls of add_transaction on an empty store the unfiltered
\* get_transactions() has exactly n rows, their ids are pairwise distinct,
\* and the id of a new row is not the id of any row that was there before.
C1_RowsAndFreshIds ==
    [][LET df == get_transactions(transactions', None, None, None, None)
       IN /\ Len(df) = addCalls'
          /\ Distinct([i \in 1..Len(df) |-> df[i].id])
          /\ \A t \in transactions'.rows \ transactions.rows :
                \A u \in transactions.rows : u.id # t.id]_vars

C1_Witness ==
    /\ addCalls = MaxTx
    /\ screen.page = "Dashboard"
    /\ Len(screen.recent_transactions) = MaxTx

\* C2: get_balance() is the sum of the income amounts minus the sum of the
\* expense amounts, a missing sum counting as zero: it is a number in every
\* state, zero on the empty store, and the Dashboard shows that number.
C2_Balance ==
    LET expected == SumAmount(OfType(transactions.rows, "income"))
                    - SumAmount(OfType(transactions.rows, "expense"))
    IN /\ get_balance(transactions) \in Int
       /\ get_balance(transactions) = expected
       /\ transactions.rows = {} => get_balance(transactions) = 0
       /\ screen.page = "Dashboard" => screen.balance = expected

C2_Witness ==
    /\ screen.page = "Dashboard"
    /\ OfType(transactions.rows, "income") # {}
    /\ OfType(transactions.rows, "expense") # {}
    /\ screen.balance < 0

\* C5: get_monthly_summary() has exactly one group for each year-month in
\* which a transaction is dated and none for any other month; the income of
\* a group is the sum of that month's income amounts, its expense the sum of
\* that month's expense amounts, and its balance is income minus expense.
C5_MonthlySummary ==
    LET df == get_monthly_summary(transactions)
        InMonth(m) == {r \in transactions.rows : r.date[1] = m[1] /\ r.date[2] = m[2]}
    IN /\ {df[i].month : i \in 1..Len(df)}
            = {<<r.date[1], r.date[2]>> : r \in transactions.rows}
       /\ Distinct([i \in 1..Len(df) |-> df[i].month])
       /\ \A i \in 1..Len(df) :
            /\ df[i].income = SumAmount(OfType(InMonth(df[i].month), "income"))
            /\ df[i].expense = SumAmount(OfType(InMonth(df[i].month), "expense"))
            /\ df[i].balance = df[i].income - df[i].expense
       /\ screen.page = "Dashboard" => screen.monthly_df = df

C5_Witness ==
    /\ screen.page = "Dashboard"
    /\ Len(screen.monthly_df) = 1
    /\ screen.monthly_df[1].income > 0
    /\ screen.monthly_df[1].expense > 0
    /\ screen.monthly_df[1].balance # 0

\* C6: get_transactions returns exactly the stored rows that satisfy every
\* supplied predicate at once (date >= start_date, date <= end_date,
\* category among categories, type = transaction_type), and every stored row
\* when no filter is supplied; so does the table "Transaction History"
\* draws from its filters.
C6_FiltersConjoined ==
    /\ Range(get_transactions(transactions, None, None, None, None))
         = transactions.rows
    /\ \A start_date \in Dates, end_date \in Dates,
          transaction_type_filter \in {"All"} \cup Types,
          selected_categories \in Selections :
          LET f == HistoryFilters(start_date, end_date,
                                  transaction_type_filter, selected_categories)
              df == get_transactions(transactions, f.start_date, f.end_date,
                                     f.categories, f.transaction_type)
          IN /\ Range(df) =
                  {r \in transactions.rows :
                      /\ TextLeq(<<start_date.year, start_date.month,
                                   start_date.day>>, r.date)
                      /\ TextLeq(r.date, <<end_date.year, end_date.month,
                                           end_date.day>>)
                      /\ selected_categories # <<>> =>
                            \E i \in 1..Len(selected_categories) :
                                r.category = selected_categories[i]
                      /\ transaction_type_filter # "All" =>
                            r.type = transaction_type_filter}
             /\ Distinct(df)
    /\ screen.page = "Transaction History" =>
          Range(screen.transactions) \subseteq transactions.rows

C6_Witness ==
    /\ screen.page = "Transaction History"
    /\ Len(screen.transactions) = 1
    /\ Cardinality(transactions.rows) = MaxTx
    /\ \E r \in transactions.rows :
          /\ r.type = screen.transactions[1].type
          /\ r.category # screen.transactions[1].category
          /\ r.date = screen.transactions[1].date

\* C7: the date range is inclusive at both ends for every caller: "Reports"
\* with "This Year" lists every expense dated January 1 of the current year,
\* the Yearly Overview of a year lists the transactions dated January 1 and
\* December 31 of that year, and "Transaction History" lists the
\* transactions dated on its start date and on its end date.
C7_InclusiveRange ==
    [][/\ \A time_range \in TimeRanges, year \in Years :
            Reports(1, time_range, year) =>
              /\ time_range = "This Year" =>
                    \A r \in transactions.rows :
                        (r.type = "expense" /\ r.date = <<CurrentYear, 1, 1>>)
                            => r \in Range(screen'.expenses)
              /\ \A r \in transactions.rows :
                    r.date \in {<<year, 1, 1>>, <<year, 12, 31>>}
                        => r \in Range(screen'.yearly_data)
       /\ \A d \in Dates :
            TransactionHistory(1, d, d, "All", <<>>) =>
              \A r \in transactions.rows :
                  r.date = <<d.year, d.month, d.day>>
                      => r \in Range(screen'.transactions)]_vars

\* C8 as stated: the store offers a deletion, that is, for every stored row
\* some step of the program leaves a table without a row of that id.
C8_DeleteOffered ==
    \A r \in transactions.rows :
        ENABLED (Next /\ \A u \in transactions'.rows : u.id # r.id)

\* C8, amended: the store offers no deletion; no step of the program removes
\* or changes a stored transaction, so the unfiltered get_transactions()
\* lists the id of every row ever inserted.
C8_RowsStay ==
    [][/\ transactions.rows \subseteq transactions'.rows
       /\ \A r \in transactions.rows :
            \E i \in 1..Len(get_transactions(transactions', None, None,
                                              None, None)) :
                get_transactions(transactions', None, None, None, None)[i].id
                    = r.id]_vars

C8_Witness ==
    /\ screen.page = "Add Transaction"
    /\ screen.messages = <<"Transaction added successfully!">>
    /\ Cardinality(transactions.rows) = MaxTx

\* C3: init_db is idempotent and non-destructive: a session start, the
\* k-th among any Category Management and form submissions, keeps every
\* row of the categories table (user-added ones with their kind), leaves no
\* name twice, leaves the transactions as they were, and a further init_db
\* would change nothing.
C3_InitDbIdempotent ==
    [][\A s \in Sessions :
          SessionStart(s) =>
            /\ categories.rows \subseteq categories'.rows
            /\ \A a, b \in categories'.rows : a.name = b.name => a = b
            /\ transactions' = transactions
            /\ init_db(categories') = categories'
            /\ init_db(init_db(categories)) = init_db(categories)]_vars

C3_Witness ==
    /\ screen.page = "Dashboard"
    /\ \A s \in Sessions : session_state[s].db_initialized
    /\ \E r \in categories.rows : r.name = "Pets" /\ r.type = "income"
    /\ transactions.rows # {}

\* C4: add_category with a name the table holds (under either kind) returns
\* False and leaves the table as it was; with a new name it returns True and
\* adds exactly one row.  So get_categories('income'),
\* get_categories('expense') and their concatenation never hold a name twice.
C4_UniqueNames ==
    /\ \A name \in NewCategoryNames \cup Range(default_income_categories),
          kind \in Types :
          LET ret == add_category(categories, name, kind)
          IN IF \E r \in categories.rows : r.name = name
             THEN ~ret.ok /\ ret.rows = categories.rows
             ELSE /\ ret.ok
                  /\ categories.rows \subseteq ret.rows
                  /\ Cardinality(ret.rows) = Cardinality(categories.rows) + 1
                  /\ \E r \in ret.rows : r.name = name /\ r.type = kind
    /\ Distinct(get_categories(categories, "income"))
    /\ Distinct(get_categories(categories, "expense"))
    /\ Distinct(all_categories)
    /\ screen.page = "Category Management" =>
          Distinct(screen.income_categories \o screen.expense_categories)

C4_Witness ==
    /\ screen.page = "Category Management"
    /\ screen.messages = <<"Category already exists!">>
    /\ \E i \in 1..Len(screen.expense_categories) :
          screen.expense_categories[i] = "Pets"

\* C9: every submission of the Add Transaction form adds, in its own script
\* run, exactly one transaction row holding the submitted kind, amount,
\* category, date and description, whatever the form holds.
C9_SubmissionAddsRow ==
    [][\A s \in Sessions :
          \A w \in FormInputs(s, {40}, {"Food", "Salary", "Pets"},
                              {""} \cup NewCategoryNames, {Today}) :
              SubmitTransactionForm(s, w) =>
                /\ Cardinality(transactions'.rows)
                     = Cardinality(transactions.rows) + 1
                /\ \E t \in transactions'.rows \ transactions.rows :
                      /\ t.type = w.transaction_type
                      /\ t.amount = w.amount
                      /\ t.category = w.category
                      /\ t.date = <<w.date.year, w.date.month, w.date.day>>
                      /\ t.description = w.description]_vars

\* C10: once init_db has run, get_categories('expense') holds the eight
\* default expense names and get_categories('income') the six default
\* income names.
C10_DefaultsListed ==
    Connected =>
        /\ Range(default_expense_categories)
             \subseteq Range(get_categories(categories, "expense"))
        /\ Range(default_income_categories)
             \subseteq Range(get_categories(categories, "income"))

====
